---- MODULE Spec2Model ----
(***************************************************************************)
(* A model of src/lib/notion/index.ts: the content fetch and normalization *)
(* core of the blog (retry wrapper, development cache, collection and      *)
(* single-item queries, page/block tree fetcher, block minimizer and list  *)
(* grouping).                                                              *)
(*                                                                         *)
(* The module holds one specification per component:                       *)
(*   SpecGroup  groupListBlocks applied to bounded block sequences         *)
(*   SpecRetry  withRetry / withTimeout / isRetryableError                 *)
(*   SpecCache  getCached / setCache under the four cached queries         *)
(*   SpecQuery  the queries over drawn collections and slug answers        *)
(*   SpecTree   mapDatabaseItemToPageProps over bounded block trees        *)
(*   SpecMin    minimizeBlock over drawn block trees                       *)
(* Each specification leaves the other components' variables idle.         *)
(***************************************************************************)
EXTENDS Integers, Sequences, FiniteSets, TLC

VARIABLES
    glIn,        \* groupListBlocks: the argument `blocks` (Null or Arr(sequence))
    glOut,       \* groupListBlocks: the returned sequence
    glPc,        \* "idle" | "ready" | "done"
    rtAttempt,   \* withRetry: the loop variable `attempt`
    rtDelay,     \* withRetry: `delay`
    rtLastError, \* withRetry: `lastError`
    rtCalls,     \* number of invocations of fn so far
    rtSleeps,    \* the backoff delays slept so far, in order
    rtHistory,   \* how each invocation of fn settled: "ok" | "retryable" | "fatal"
    rtPc,        \* "idle" | "running" | "returned" | "thrown"
    rtResult,    \* the value returned or the error thrown by withRetry
    isDev,       \* process.env.NODE_ENV === 'development'
    now,         \* Date.now(), in ms since the process started
    ticks,       \* number of clock advances so far
    cache,       \* the Map `cache`: a function from the keys present to entries
    call,        \* the query in progress or last finished, with what it observed
    callsMade,   \* number of queries started so far
    svc,         \* what the content service holds: the collection, as it pages it,
                 \* and its answer to the query by slug
    trTop,       \* the service's listing of the page's immediate blocks
    trPc,        \* mapDatabaseItemToPageProps: "idle" | "fetching" | "children" | "returned" | "thrown"
    trPage,      \* `page`, once getPage has resolved
    trBlocks,    \* `blocks`, once getBlocks(id) has resolved
    trPending,   \* the ids whose getPage / getBlocks is in flight
    trCols,      \* per column_list whose listing is in: its columns and the column contents in
    trMap,       \* `childrenMap`
    trResult,    \* the value returned
    mnIn,        \* minimizeBlock: the argument `block`
    mnOnce,      \* minimizeBlock(block)
    mnTwice,     \* minimizeBlock(minimizeBlock(block))
    mnPc         \* "idle" | "ready" | "once" | "twice"

groupVars == <<glIn, glOut, glPc>>
retryVars == <<rtAttempt, rtDelay, rtLastError, rtCalls, rtSleeps, rtHistory, rtPc, rtResult>>
cacheVars == <<isDev, now, ticks, cache, call, callsMade, svc>>
treeVars == <<trTop, trPc, trPage, trBlocks, trPending, trCols, trMap, trResult>>
minVars == <<mnIn, mnOnce, mnTwice, mnPc>>

\* JavaScript's null / undefined
Null == [t |-> "null"]
Undefined == [t |-> "undef"]
\* an array value
Arr(s) == [t |-> "arr", v |-> s]

(***************************************************************************)
(* List Grouping: groupListBlocks                                          *)
(***************************************************************************)

\* Longest input sequence given to groupListBlocks.
MaxBlocks == 4

BlockTypes == {"paragraph", "bulleted_list_item", "numbered_list_item"}

\* A block of the flat sequence: the fields groupListBlocks reads.
FlatBlock(i, ty) == [id |-> i, type |-> ty]

\* All block sequences of length n whose k-th block has id k.
FlatInputs(n) ==
    { [k \in 1..n |-> FlatBlock(k, f[k])] : f \in [1..n -> BlockTypes] }

IsListItem(b) == b.type = "bulleted_list_item" \/ b.type = "numbered_list_item"

\* currList = { id: b.id, type: b.type === "bulleted_list_item" ? "ul" : "ol", items: [] }
NewList(b) ==
    [id |-> b.id,
     type |-> IF b.type = "bulleted_list_item" THEN "ul" ELSE "ol",
     items |-> <<>>]

\* One iteration of the for loop over st = [cur, out] with block b.
GroupStep(st, b) ==
    IF IsListItem(b)
    THEN LET cl == IF st.cur = Null THEN NewList(b) ELSE st.cur
         IN  [cur |-> [cl EXCEPT !.items = Append(cl.items, b)], out |-> st.out]
    ELSE LET flushed == IF st.cur # Null THEN Append(st.out, st.cur) ELSE st.out
         IN  [cur |-> Null, out |-> Append(flushed, b)]

RECURSIVE GroupLoop(_, _, _)
GroupLoop(blocks, i, st) ==
    IF i > Len(blocks) THEN st
    ELSE GroupLoop(blocks, i + 1, GroupStep(st, blocks[i]))

\* Mutant of groupListBlocks: a list still open at the end of the input is not pushed.
groupListBlocks_NoFinalFlush(blocks) ==
    LET bs == IF blocks = Null THEN <<>> ELSE blocks.v
    IN  GroupLoop(bs, 1, [cur |-> Null, out |-> <<>>]).out

groupListBlocks(blocks) ==
    LET bs == IF blocks = Null THEN <<>> ELSE blocks.v  \* blocks ?? []
        st == GroupLoop(bs, 1, [cur |-> Null, out |-> <<>>])
    IN  IF st.cur # Null THEN Append(st.out, st.cur) ELSE st.out

IsListBlock(x) == x.type \in {"ul", "ol"}

GroupIdle == glIn = Null /\ glOut = <<>> /\ glPc = "idle"

GroupInit ==
    /\ glIn \in {Null} \cup { Arr(s) : s \in UNION { FlatInputs(n) : n \in 0..MaxBlocks } }
    /\ glOut = <<>>
    /\ glPc = "ready"

GroupListBlocks ==
    /\ glPc = "ready"
    /\ glOut' = groupListBlocks(glIn)
    /\ glPc' = "done"
    /\ UNCHANGED glIn

(***************************************************************************)
(* JavaScript values: numbers and strings are tagged, so that === between  *)
(* a string and a number is false, as in the language.  A string that the  *)
(* code searches (includes, match) is a sequence of characters.            *)
(***************************************************************************)
Num(n) == [t |-> "num", v |-> n]
Str(s) == [t |-> "str", v |-> s]
Bool(b) == [t |-> "bool", v |-> b]

\* An object: f maps the keys present to their values.
Obj(f) == [t |-> "obj", f |-> f]

\* o[k] (undefined for a key that is absent, and for any key of an array other
\* than its indices and length)
Get(o, k) == IF o.t = "obj" /\ k \in DOMAIN o.f THEN o.f[k] ELSE Undefined

\* { ...o, [k]: v }; spreading null or undefined adds nothing
Put(o, k, v) ==
    IF o.t = "obj"
    THEN Obj([x \in (DOMAIN o.f) \cup {k} |-> IF x = k THEN v ELSE o.f[x]])
    ELSE Obj([x \in {k} |-> v])

\* a === b
StrictEq(a, b) == a.t = b.t /\ (a.t \in {"num", "str", "bool"} => a.v = b.v)

\* the truthiness that `||`, `&&`, `?:` and `if` test
Truthy(a) ==
    CASE a.t = "num" -> a.v # 0
      [] a.t = "str" -> Len(a.v) > 0
      [] a.t = "bool" -> a.v
      [] a.t \in {"arr", "obj"} -> TRUE
      [] OTHER -> FALSE

\* a || b
Or(a, b) == IF Truthy(a) THEN a ELSE b

DigitChars == <<"0", "1", "2", "3", "4", "5", "6", "7", "8", "9">>

\* the decimal digits of n >= 0, as `${n}` prints them
RECURSIVE Digits(_)
Digits(n) ==
    IF n < 10 THEN <<DigitChars[n + 1]>>
    ELSE Digits(n \div 10) \o <<DigitChars[(n % 10) + 1]>>

IsDigit(c) == \E k \in 1..10 : DigitChars[k] = c
IsSpace(c) == c = " "

\* String.prototype.includes on character sequences
Includes(s, pat) ==
    \E i \in 1..(Len(s) - Len(pat) + 1) : SubSeq(s, i, i + Len(pat) - 1) = pat

\* the first index >= i of s that holds no character satisfying the class
RECURSIVE SkipSpaces(_, _)
SkipSpaces(s, i) == IF i <= Len(s) /\ IsSpace(s[i]) THEN SkipSpaces(s, i + 1) ELSE i
RECURSIVE SkipDigits(_, _)
SkipDigits(s, i) == IF i <= Len(s) /\ IsDigit(s[i]) THEN SkipDigits(s, i + 1) ELSE i

C_status == <<"s", "t", "a", "t", "u", "s", ":">>
C_timeout == <<"t", "i", "m", "e", "o", "u", "t">>
C_TIMEOUT == <<"T", "I", "M", "E", "O", "U", "T">>

\* message.match(/status:\s*(\d+)/)?.[1]: the digits captured at the leftmost
\* match, a string; undefined when nothing matches
MatchStatus(s) ==
    LET starts == { i \in 1..(Len(s) - 6) :
                      /\ SubSeq(s, i, i + 6) = C_status
                      /\ SkipDigits(s, SkipSpaces(s, i + 7)) > SkipSpaces(s, i + 7) }
    IN  IF starts = {} THEN Undefined
        ELSE LET i == CHOOSE x \in starts : \A y \in starts : x <= y
                 d == SkipSpaces(s, i + 7)
             IN  Str(SubSeq(s, d, SkipDigits(s, d) - 1))

(***************************************************************************)
(* Resilient Call Wrapper: isRetryableError, withTimeout, withRetry        *)
(***************************************************************************)
\* Mutant of MAX_RETRIES: one retry fewer.
MAX_RETRIES_OneFewer == 5 - 1

MAX_RETRIES == 5
INITIAL_RETRY_DELAY == 1000
MAX_RETRY_DELAY == 30000
TIMEOUT_MS == 30000

M_timed_out_prefix == <<"O", "p", "e", "r", "a", "t", "i", "o", "n", " ", "t", "i", "m", "e", "d", " ", "o", "u", "t", " ", "a", "f", "t", "e", "r", " ">>
M_ms == <<"m", "s">>
M_unavailable == <<"S", "e", "r", "v", "i", "c", "e", " ", "U", "n", "a", "v", "a", "i", "l", "a", "b", "l", "e">>
M_status_503 == <<"R", "e", "q", "u", "e", "s", "t", " ", "f", "a", "i", "l", "e", "d", " ", "w", "i", "t", "h", " ", "s", "t", "a", "t", "u", "s", ":", " ", "5", "0", "3">>
M_bad_request == <<"B", "a", "d", " ", "R", "e", "q", "u", "e", "s", "t">>
M_request_timeout == <<"R", "e", "q", "u", "e", "s", "t", " ", "t", "i", "m", "e", "o", "u", "t">>
M_socket == <<"s", "o", "c", "k", "e", "t", " ", "h", "a", "n", "g", " ", "u", "p">>
M_gateway_TIMEOUT == <<"G", "A", "T", "E", "W", "A", "Y", " ", "T", "I", "M", "E", "O", "U", "T">>
M_boom == <<"b", "o", "o", "m">>

\* An error object: the fields isRetryableError reads.
Err(code, status, message) == [code |-> code, status |-> status, message |-> message]

RespErr(status, message) == Err(Str("notionhq_client_response_error"), status, Str(message))

\* The errors an invocation of fn may reject with.
FnErrors ==
    {RespErr(Num(n), M_unavailable) : n \in {429, 502, 503, 504}}
    \cup {RespErr(Num(n), M_bad_request) : n \in {400, 404}}
    \cup {RespErr(Num(400), M_request_timeout),
          RespErr(Undefined, M_status_503),
          Err(Undefined, Undefined, Str(M_request_timeout)),
          Err(Undefined, Undefined, Str(M_gateway_TIMEOUT)),
          Err(Undefined, Undefined, Str(M_boom)),
          Err(Undefined, Undefined, Undefined)}
    \cup {Err(Str(c), Undefined, Str(M_socket)) : c \in {"ECONNRESET", "ETIMEDOUT", "ENOTFOUND", "EPIPE"}}

\* new Error(`Operation timed out after ${timeoutMs}ms`)
TimeoutError(timeoutMs) ==
    Err(Undefined, Undefined, Str(M_timed_out_prefix \o Digits(timeoutMs) \o M_ms))

\* error?.message?.includes(pat)
MessageIncludes(error, pat) ==
    error.message.t = "str" /\ Includes(error.message.v, pat)

isRetryableError(error) ==
    IF StrictEq(error.code, Str("notionhq_client_response_error"))
    THEN LET status == IF Truthy(error.status) THEN error.status
                       ELSE IF error.message.t = "str" THEN MatchStatus(error.message.v)
                       ELSE Undefined
         IN  \/ StrictEq(status, Num(502))
             \/ StrictEq(status, Num(503))
             \/ StrictEq(status, Num(504))
             \/ StrictEq(status, Num(429))
    ELSE IF \/ StrictEq(error.code, Str("ECONNRESET"))
            \/ StrictEq(error.code, Str("ETIMEDOUT"))
            \/ StrictEq(error.code, Str("ENOTFOUND"))
    THEN TRUE
    ELSE IF MessageIncludes(error, C_timeout) \/ MessageIncludes(error, C_TIMEOUT)
    THEN TRUE
    ELSE FALSE

\* What one invocation of fn does: resolve, reject, or stay pending past the timer.
FnValues == {"v1", "v2"}
FnOutcomes ==
    {[kind |-> "ok", value |-> v] : v \in FnValues}
    \cup {[kind |-> "err", error |-> e] : e \in FnErrors}
    \cup {[kind |-> "pending"]}

\* Promise.race([promise, timer]): the promise's own settlement when it settles
\* first, the timer's rejection otherwise.
withTimeout(outcome, timeoutMs) ==
    IF outcome.kind = "pending"
    THEN [kind |-> "err", error |-> TimeoutError(timeoutMs)]
    ELSE outcome

\* Math.random() as a fraction in thousandths, a value of [0, 1).
RandomPerMille == {0, 500, 999}

Min(a, b) == IF a <= b THEN a ELSE b

\* Mutant of BackoffDelay: the jitter is up to the whole delay.
BackoffDelay_FullJitter(delay, r) == Min(delay + ((r * delay) \div 1000), MAX_RETRY_DELAY)

\* jitter = Math.random() * 0.3 * delay; backoffDelay = Math.min(delay + jitter, MAX_RETRY_DELAY)
\* (whole milliseconds)
BackoffDelay(delay, r) == Min(delay + ((r * 3 * delay) \div 10000), MAX_RETRY_DELAY)

RetryIdle ==
    /\ rtAttempt = 0 /\ rtDelay = INITIAL_RETRY_DELAY /\ rtLastError = Undefined
    /\ rtCalls = 0 /\ rtSleeps = <<>> /\ rtHistory = <<>>
    /\ rtPc = "idle" /\ rtResult = Undefined

RetryInit ==
    /\ rtAttempt = 0 /\ rtDelay = INITIAL_RETRY_DELAY /\ rtLastError = Undefined
    /\ rtCalls = 0 /\ rtSleeps = <<>> /\ rtHistory = <<>>
    /\ rtPc = "running" /\ rtResult = Undefined

\* The settlement of the attempt's withTimeout(fn(), TIMEOUT_MS); a rejection carries
\* the number of the invocation that produced it (the identity of the error object).
Settled(outcome) ==
    LET r == withTimeout(outcome, TIMEOUT_MS)
    IN  IF r.kind = "err"
        THEN [kind |-> "err",
              error |-> [code |-> r.error.code, status |-> r.error.status,
                         message |-> r.error.message, seq |-> rtCalls + 1]]
        ELSE r

\* The class of a settlement, as the environment produced it.
Class(r) ==
    IF r.kind = "ok" THEN "ok"
    ELSE IF isRetryableError(r.error) THEN "retryable" ELSE "fatal"

\* Mutant of GivesUp: the last retry is never made.
GivesUp_OneEarly(error, attempt) == ~isRetryableError(error) \/ attempt >= MAX_RETRIES - 1

\* Mutant of GivesUp: the error's class is not looked at.
GivesUp_IgnoresClass(error, attempt) == attempt = MAX_RETRIES

\* the catch block's test: throw rather than back off
GivesUp(error, attempt) == ~isRetryableError(error) \/ attempt = MAX_RETRIES

\* try { return await withTimeout(fn(), TIMEOUT_MS) }
AttemptReturns ==
    /\ rtPc = "running" /\ rtAttempt <= MAX_RETRIES
    /\ \E o \in FnOutcomes :
         LET r == Settled(o) IN
         /\ r.kind = "ok"
         /\ rtCalls' = rtCalls + 1
         /\ rtHistory' = Append(rtHistory, Class(r))
         /\ rtPc' = "returned"
         /\ rtResult' = r.value
    /\ UNCHANGED <<rtAttempt, rtDelay, rtLastError, rtSleeps>>

\* catch (error) { lastError = error; if (...) throw error }
AttemptThrows ==
    /\ rtPc = "running" /\ rtAttempt <= MAX_RETRIES
    /\ \E o \in FnOutcomes :
         LET r == Settled(o) IN
         /\ r.kind = "err"
         /\ GivesUp(r.error, rtAttempt)
         /\ rtCalls' = rtCalls + 1
         /\ rtHistory' = Append(rtHistory, Class(r))
         /\ rtLastError' = r.error
         /\ rtPc' = "thrown"
         /\ rtResult' = r.error
    /\ UNCHANGED <<rtAttempt, rtDelay, rtSleeps>>

\* catch (error) { lastError = error; ...; await sleep(backoffDelay); delay *= 2 }; attempt++
AttemptRetries ==
    /\ rtPc = "running" /\ rtAttempt <= MAX_RETRIES
    /\ \E o \in FnOutcomes, rnd \in RandomPerMille :
         LET r == Settled(o) IN
         /\ r.kind = "err"
         /\ ~GivesUp(r.error, rtAttempt)
         /\ rtCalls' = rtCalls + 1
         /\ rtHistory' = Append(rtHistory, Class(r))
         /\ rtLastError' = r.error
         /\ rtSleeps' = Append(rtSleeps, BackoffDelay(rtDelay, rnd))
         /\ rtDelay' = rtDelay * 2
         /\ rtAttempt' = rtAttempt + 1
         \* the loop's exit: throw lastError
         /\ IF rtAttempt + 1 <= MAX_RETRIES
            THEN rtPc' = "running" /\ rtResult' = rtResult
            ELSE rtPc' = "thrown" /\ rtResult' = r.error


(***************************************************************************)
(* Response Cache: getCached, setCache                                     *)
(***************************************************************************)
CACHE_TTL_MS == 60000

\* The Map with no entries.
EmptyMap == [k \in {} |-> Null]

\* cache.delete(key)
MapDelete(m, key) == [k \in (DOMAIN m) \ {key} |-> m[k]]

\* cache.set(key, entry)
MapSet(m, key, entry) == [k \in (DOMAIN m) \cup {key} |-> IF k = key THEN entry ELSE m[k]]

\* Mutant of Expired: an entry exactly CACHE_TTL_MS old is expired already.
Expired_AtTtl(entry, t) == t - entry.timestamp >= CACHE_TTL_MS

\* `Date.now() - entry.timestamp > CACHE_TTL_MS`
Expired(entry, t) == t - entry.timestamp > CACHE_TTL_MS

\* Mutant of setCache: the mode is not looked at.
setCache_AnyMode(m, key, data, t) ==
    [k \in (DOMAIN m) \cup {key} |-> IF k = key THEN [data |-> data, timestamp |-> t] ELSE m[k]]

\* getCached(key) at time t on Map m: the value returned and the Map left behind.
getCached(m, key, t) ==
    IF ~isDev THEN [ret |-> Null, map |-> m]
    ELSE IF key \notin DOMAIN m THEN [ret |-> Null, map |-> m]
    ELSE IF Expired(m[key], t) THEN [ret |-> Null, map |-> MapDelete(m, key)]
    ELSE [ret |-> m[key].data, map |-> m]

\* setCache(key, data) at time t on Map m: the Map left behind.
setCache(m, key, data, t) ==
    IF ~isDev THEN m
    ELSE MapSet(m, key, [data |-> data, timestamp |-> t])

(***************************************************************************)
(* The content service, as the queries see it: a collection of records     *)
(* listed in pages, a filtered query by slug, a page, a block's children   *)
(* listed in pages.                                                        *)
(***************************************************************************)

\* A record of the collection: the properties the queries read.
\*   date: Null or the date's `start`, <<year, month, day>>
\*   description, slug, title, authors: the lengths of rich_text / title / people
Record(id, date, description, slug, title, authors, published) ==
    [t |-> "obj", id |-> id, date |-> date, description |-> description, slug |-> slug,
     title |-> title, authors |-> authors, published |-> published]

DateOf(y, m, d) == [t |-> "date", start |-> <<y, m, d>>]

\* new Date(start).getTime() for a calendar date, counted in days from the epoch
\* to its UTC midnight (the comparator only uses the sign of a difference, which
\* is the same in days and in milliseconds)
GetTime(start) ==
    LET y0 == start[1]  m == start[2]  d == start[3]
        y == IF m <= 2 THEN y0 - 1 ELSE y0
        era == y \div 400
        yoe == y - era * 400
        doy == ((153 * (IF m > 2 THEN m - 3 ELSE m + 9) + 2) \div 5) + d - 1
        doe == yoe * 365 + (yoe \div 4) - (yoe \div 100) + doy
    IN  era * 146097 + doe - 719468

\* A collection "d1" of four records, in the service's listing order, as the
\* service pages it.
DefaultPages ==
    << << Record("r1", DateOf(2023, 3, 1), 1, 1, 1, 1, TRUE),
          Record("r2", DateOf(2023, 12, 24), 1, 1, 1, 1, FALSE) >>,
       << Record("r3", Null, 1, 1, 1, 1, TRUE),
          Record("r4", DateOf(2023, 12, 24), 1, 1, 1, 2, TRUE) >> >>

\* The slugs asked for: "a" matches a complete record, "b" a record with no
\* description, "c" no record.
Slugs == {"a", "b", "c"}
DefaultMatches ==
    [slug \in Slugs |->
        CASE slug = "a" -> << Record("r1", DateOf(2023, 3, 1), 1, 1, 1, 1, TRUE) >>
          [] slug = "b" -> << Record("r5", DateOf(2023, 5, 5), 0, 1, 1, 1, TRUE) >>
          [] OTHER -> << >>]

\* The service's data in the fixed scenario.
DefaultService == [collection |-> DefaultPages, bySlug |-> DefaultMatches]

\* The pages of the collection, and the `results` of the query filtered by slug.
CollectionPages == svc.collection
SlugMatches(slug) == svc.bySlug[slug]

\* The page "p1" and the listing of its children, as the service pages it.
PageObject(id) == [t |-> "obj", id |-> id]
ChildPages(id) ==
    << << [id |-> id \o ".1", type |-> "paragraph", has_children |-> FALSE] >>,
       << [id |-> id \o ".2", type |-> "divider", has_children |-> FALSE] >> >>

\* An opaque cursor naming page i of a listing.
CursorOf(i) == Str("cursor-" \o ToString(i))

\* The service's answer for a listing `pages` asked with start_cursor `cursor`.
ListResponse(pages, cursor) ==
    LET i == IF cursor = Undefined THEN 1
             ELSE CHOOSE k \in 1..Len(pages) : CursorOf(k) = cursor
    IN  [results |-> pages[i],
         next_cursor |-> IF i < Len(pages) THEN CursorOf(i + 1) ELSE Null]

\* `response.next_cursor ?? undefined`
OrUndefined(v) == IF v = Null \/ v = Undefined THEN Undefined ELSE v

(***************************************************************************)
(* Collection Query, Single-Item Query, getPage, getBlocks                 *)
(***************************************************************************)

\* Number of queries made in one behaviour, and of clock advances.
MaxCalls == 3
MaxTicks == 3

\* The clock advances by one of these amounts between steps.
TickSteps == {1, CACHE_TTL_MS - 1}

BoolString(b) == IF b THEN "true" ELSE "false"

\* `database:${databaseId}:${includeUnpublished}` and the other cache keys
DatabaseKey(databaseId, includeUnpublished) ==
    "database:" \o databaseId \o ":" \o BoolString(includeUnpublished)
PostBySlugKey(databaseId, slug) == "post-by-slug:" \o databaseId \o ":" \o slug
PageKey(pageId) == "page:" \o pageId
BlocksKey(blockId) == "blocks:" \o blockId

\* Mutant of KeepsRecord: the authors are not looked at.
KeepsRecord_IgnoresAuthors(r, includeUnpublished) ==
    /\ r.date # Null
    /\ r.description > 0
    /\ r.slug > 0
    /\ r.title > 0
    /\ (includeUnpublished \/ r.published)

\* the filter of getDatabase
KeepsRecord(r, includeUnpublished) ==
    /\ r.date # Null
    /\ r.description > 0
    /\ r.slug > 0
    /\ r.title > 0
    /\ r.authors > 0
    /\ (includeUnpublished \/ r.published)

\* Mutant of IsValid: the title is not looked at.
IsValid_IgnoresTitle(post) ==
    /\ post.date # Null
    /\ post.description > 0
    /\ post.slug > 0
    /\ post.authors > 0

\* the validity test of getPostBySlug (a record of the collection carries all
\* five properties, so no `?.` of the test meets an absent one)
IsValid(post) ==
    /\ post.date # Null
    /\ post.description > 0
    /\ post.slug > 0
    /\ post.title > 0
    /\ post.authors > 0

\* Array.prototype.filter
RECURSIVE Filter(_, _)
Filter(s, incl) ==
    IF s = <<>> THEN <<>>
    ELSE IF KeepsRecord(Head(s), incl) THEN <<Head(s)>> \o Filter(Tail(s), incl)
    ELSE Filter(Tail(s), incl)

\* the comparator of getDatabase: dateB.getTime() - dateA.getTime()
CompareDates(a, b) == GetTime(b.date.start) - GetTime(a.date.start)

\* Mutant of InsertSorted: x goes before the elements it ties with.
RECURSIVE InsertSorted_BeforeTies(_, _)
InsertSorted_BeforeTies(s, x) ==
    IF s = <<>> THEN <<x>>
    ELSE IF CompareDates(Head(s), x) < 0
    THEN <<Head(s)>> \o InsertSorted_BeforeTies(Tail(s), x)
    ELSE <<x>> \o s

\* x put into sorted s after every element the comparator does not place after it
RECURSIVE InsertSorted(_, _)
InsertSorted(s, x) ==
    IF s = <<>> THEN <<x>>
    ELSE IF CompareDates(Head(s), x) <= 0 THEN <<Head(s)>> \o InsertSorted(Tail(s), x)
    ELSE <<x>> \o s

\* Array.prototype.sort with that comparator (a stable sort)
RECURSIVE SortByDate(_)
SortByDate(s) ==
    IF s = <<>> THEN <<>>
    ELSE InsertSorted(SortByDate(SubSeq(s, 1, Len(s) - 1)), s[Len(s)])

NoCall ==
    [op |-> "none", key |-> "", incl |-> FALSE, id |-> "", phase |-> "idle",
     cursor |-> Undefined, results |-> <<>>, requests |-> 0,
     age |-> -1, stored |-> Undefined, read |-> Undefined, prevKey |-> "",
     fromCache |-> FALSE, value |-> Undefined]

\* A query started at this step: what it finds in the cache (age: the time since
\* the entry for its key was written, -1 with no entry; stored: the entry's data;
\* read: getCached's answer; prevKey: the key of the query before it) and, from
\* the caller's test of that answer, whether it returns at once or issues a request.
Started(op, key, incl, id, hit) ==
    LET got == getCached(cache, key, now)
    IN  [op |-> op, key |-> key, incl |-> incl, id |-> id,
         phase |-> IF hit THEN "returned" ELSE "fetching",
         cursor |-> Undefined, results |-> <<>>,
         requests |-> IF hit THEN 0 ELSE 1,
         age |-> IF key \in DOMAIN cache THEN now - cache[key].timestamp ELSE -1,
         stored |-> IF key \in DOMAIN cache THEN cache[key].data ELSE Undefined,
         read |-> got.ret,
         prevKey |-> call.key,
         fromCache |-> hit,
         value |-> IF hit THEN got.ret ELSE Undefined]

CanStart == call.phase # "fetching" /\ callsMade < MaxCalls

Begin(op, key, incl, id, hit) ==
    /\ CanStart
    /\ call' = Started(op, key, incl, id, hit)
    /\ cache' = getCached(cache, key, now).map
    /\ callsMade' = callsMade + 1
    /\ UNCHANGED <<isDev, now, ticks, svc>>

\* getDatabase up to its first request: `if (cached) return cached`
GetDatabaseBegin ==
    \E incl \in BOOLEAN :
        LET key == DatabaseKey("d1", incl)
        IN  Begin("getDatabase", key, incl, "d1", Truthy(getCached(cache, key, now).ret))

\* getPostBySlug up to its request: `if (cached !== null) return cached`
GetPostBySlugBegin ==
    \E slug \in Slugs :
        LET key == PostBySlugKey("d1", slug)
        IN  Begin("getPostBySlug", key, FALSE, slug, getCached(cache, key, now).ret # Null)

\* getPage up to its request: `if (cached) return cached`
GetPageBegin ==
    LET key == PageKey("p1")
    IN  Begin("getPage", key, FALSE, "p1", Truthy(getCached(cache, key, now).ret))

\* getBlocks up to its first request: `if (cached) return cached`
GetBlocksBegin ==
    LET key == BlocksKey("p1")
    IN  Begin("getBlocks", key, FALSE, "p1", Truthy(getCached(cache, key, now).ret))

\* The query ends with `value`, written to the cache under its key.
Finish(value) ==
    /\ cache' = setCache(cache, call.key, value, now)
    /\ call' = [call EXCEPT !.phase = "returned", !.value = value]

\* Mutant of NextPage: the page's records are not kept.
NextPage_DropsPage(response) ==
    /\ call' = [call EXCEPT !.cursor = OrUndefined(response.next_cursor),
                            !.requests = call.requests + 1]
    /\ UNCHANGED cache

\* One more page of a listing is in: results.push(...), startCursor = next_cursor.
NextPage(response) ==
    /\ call' = [call EXCEPT !.results = call.results \o response.results,
                            !.cursor = OrUndefined(response.next_cursor),
                            !.requests = call.requests + 1]
    /\ UNCHANGED cache

\* getDatabase: withRetry returns a page of the collection
GetDatabasePage ==
    /\ call.phase = "fetching" /\ call.op = "getDatabase"
    /\ LET response == ListResponse(CollectionPages, call.cursor)
           results == call.results \o response.results
       IN  IF OrUndefined(response.next_cursor) # Undefined
           THEN NextPage(response)
           ELSE Finish(Arr(SortByDate(Filter(results, call.incl))))
    /\ UNCHANGED <<isDev, now, ticks, callsMade, svc>>

\* getPostBySlug: withRetry returns the filtered query's answer
GetPostBySlugResponse ==
    /\ call.phase = "fetching" /\ call.op = "getPostBySlug"
    /\ LET results == SlugMatches(call.id)
           post == IF Len(results) > 0 THEN results[1] ELSE Null
       IN  IF post # Null /\ ~IsValid(post)
           THEN Finish(Null)
           ELSE Finish(post)
    /\ UNCHANGED <<isDev, now, ticks, callsMade, svc>>

\* getPage: withRetry returns the page
GetPageResponse ==
    /\ call.phase = "fetching" /\ call.op = "getPage"
    /\ Finish(PageObject(call.id))
    /\ UNCHANGED <<isDev, now, ticks, callsMade, svc>>

\* getBlocks: withRetry returns a page of the children listing
GetBlocksPage ==
    /\ call.phase = "fetching" /\ call.op = "getBlocks"
    /\ LET response == ListResponse(ChildPages(call.id), call.cursor)
           results == call.results \o response.results
       IN  IF OrUndefined(response.next_cursor) # Undefined
           THEN NextPage(response)
           ELSE Finish(Arr(results))
    /\ UNCHANGED <<isDev, now, ticks, callsMade, svc>>

\* Mutant of RequestFails: what was accumulated before the failure is stored.
RequestFails_StoresPartial ==
    /\ call.phase = "fetching"
    /\ call' = [call EXCEPT !.phase = "thrown"]
    /\ cache' = setCache(cache, call.key, Arr(call.results), now)
    /\ UNCHANGED <<isDev, now, ticks, callsMade, svc>>

\* withRetry throws: the query rejects, nothing is written
RequestFails ==
    /\ call.phase = "fetching"
    /\ call' = [call EXCEPT !.phase = "thrown"]
    /\ UNCHANGED <<isDev, now, ticks, cache, callsMade, svc>>

\* time passes
Tick ==
    /\ ticks < MaxTicks
    /\ \E d \in TickSteps : now' = now + d
    /\ ticks' = ticks + 1
    /\ UNCHANGED <<isDev, cache, call, callsMade, svc>>

CacheIdle ==
    /\ isDev = FALSE /\ now = 0 /\ ticks = 0 /\ cache = EmptyMap
    /\ call = NoCall /\ callsMade = 0 /\ svc = DefaultService

CacheInit ==
    /\ isDev \in BOOLEAN /\ now = 0 /\ ticks = 0 /\ cache = EmptyMap
    /\ call = NoCall /\ callsMade = 0 /\ svc = DefaultService

(***************************************************************************)
(* Collections drawn from bounded sets, for the queries' results           *)
(***************************************************************************)

\* Largest number of records of a drawn collection.
MaxRecords == 3

\* The batch sizes the service pages a drawn collection with.
PageSizes == {1, 2}

\* The kinds of record of a drawn collection: 1 to 3 are complete (1 with an
\* earlier date than 2 and 3, which tie; 3 is not published), 4 to 8 each lack
\* one of the five required fields.
CompleteKinds == {1, 2, 3}
IncompleteKinds == {4, 5, 6, 7, 8}
RecordOfKind(k, id) ==
    CASE k = 1 -> Record(id, DateOf(2023, 3, 1), 1, 1, 1, 1, TRUE)
      [] k = 2 -> Record(id, DateOf(2023, 12, 24), 1, 1, 1, 2, TRUE)
      [] k = 3 -> Record(id, DateOf(2023, 12, 24), 1, 1, 1, 1, FALSE)
      [] k = 4 -> Record(id, Null, 1, 1, 1, 1, TRUE)
      [] k = 5 -> Record(id, DateOf(2023, 12, 24), 0, 1, 1, 1, TRUE)
      [] k = 6 -> Record(id, DateOf(2023, 12, 24), 1, 0, 1, 1, TRUE)
      [] k = 7 -> Record(id, DateOf(2023, 12, 24), 1, 1, 0, 1, TRUE)
      [] k = 8 -> Record(id, DateOf(2023, 12, 24), 1, 1, 1, 0, TRUE)

\* The collections of n records, the i-th with id "r<i>", at most one of them incomplete.
Listings(n) ==
    { [i \in 1..n |-> RecordOfKind(f[i], "r" \o ToString(i))] :
        f \in { g \in [1..n -> CompleteKinds \cup IncompleteKinds] :
                  Cardinality({ i \in 1..n : g[i] \in IncompleteKinds }) <= 1 } }

\* The pages the service cuts a listing into with batch size `size` (an empty
\* listing is one empty page).
Paginate(records, size) ==
    LET n == IF Len(records) = 0 THEN 1 ELSE (Len(records) + size - 1) \div size
    IN  [p \in 1..n |-> SubSeq(records, (p - 1) * size + 1, Min(p * size, Len(records)))]

\* The answers the service may give to the query by slug "a" (page_size: 1).
SlugAnswers ==
    {<< >>} \cup { << RecordOfKind(k, "r1") >> : k \in CompleteKinds \cup IncompleteKinds }

Services ==
    { [collection |-> Paginate(l, size), bySlug |-> DefaultMatches] :
        l \in UNION { Listings(n) : n \in 0..MaxRecords }, size \in PageSizes }
    \cup { [collection |-> DefaultPages, bySlug |-> [DefaultMatches EXCEPT !["a"] = answer]] :
             answer \in SlugAnswers }

\* Outside development mode (every query fetches), the service holding one of
\* the drawn contents.
DrawnInit ==
    /\ isDev = FALSE /\ now = 0 /\ ticks = 0 /\ cache = EmptyMap
    /\ call = NoCall /\ callsMade = 0 /\ svc \in Services

(***************************************************************************)
(* Block Minimizer: minimizeRichText, minimizeBlock                        *)
(***************************************************************************)

\* a.length for an array a
Length(a) == IF a.t = "arr" THEN Len(a.v) ELSE 0

\* Mutant of KeptAnnotations: the colour is not carried over.
KeptAnnotations_ColorReset(annotations) ==
    Obj([bold |-> Or(Get(annotations, "bold"), Bool(FALSE)),
         italic |-> Or(Get(annotations, "italic"), Bool(FALSE)),
         strikethrough |-> Or(Get(annotations, "strikethrough"), Bool(FALSE)),
         underline |-> Or(Get(annotations, "underline"), Bool(FALSE)),
         code |-> Or(Get(annotations, "code"), Bool(FALSE)),
         color |-> Str("default")])

\* the annotations kept for a span with formatting
KeptAnnotations(annotations) ==
    Obj([bold |-> Or(Get(annotations, "bold"), Bool(FALSE)),
         italic |-> Or(Get(annotations, "italic"), Bool(FALSE)),
         strikethrough |-> Or(Get(annotations, "strikethrough"), Bool(FALSE)),
         underline |-> Or(Get(annotations, "underline"), Bool(FALSE)),
         code |-> Or(Get(annotations, "code"), Bool(FALSE)),
         color |-> Or(Get(annotations, "color"), Str("default"))])

\* hasFormatting
HasFormatting(annotations) ==
    /\ Truthy(annotations)
    /\ \/ Truthy(Get(annotations, "bold"))
       \/ Truthy(Get(annotations, "italic"))
       \/ Truthy(Get(annotations, "strikethrough"))
       \/ Truthy(Get(annotations, "underline"))
       \/ Truthy(Get(annotations, "code"))
       \/ /\ Truthy(Get(annotations, "color"))
          /\ ~StrictEq(Get(annotations, "color"), Str("default"))

\* the callback of richText.map in minimizeRichText
MinimizeSpan(text) ==
    LET annotations == Get(text, "annotations")
        textObj == Get(text, "text")
        href == Get(text, "href")
        m0 == Obj([plain_text |-> Get(text, "plain_text"),
                   type |-> Or(Get(text, "type"), Str("text"))])
        m1 == IF HasFormatting(annotations)
              THEN Put(m0, "annotations", KeptAnnotations(annotations))
              ELSE m0
        content == Obj([content |-> Or(Get(textObj, "content"), Str(""))])
        m2 == IF Truthy(textObj)
                 /\ (Truthy(Get(textObj, "content")) \/ Truthy(Get(textObj, "link")))
              THEN Put(m1, "text",
                       IF Truthy(Get(textObj, "link"))
                       THEN Put(content, "link", Obj([url |-> Get(Get(textObj, "link"), "url")]))
                       ELSE content)
              ELSE m1
    IN  IF Truthy(href) THEN Put(m2, "href", href) ELSE m2

minimizeRichText(richText) ==
    IF ~Truthy(richText) \/ richText.t # "arr" THEN richText
    ELSE Arr([i \in 1..Len(richText.v) |-> MinimizeSpan(richText.v[i])])

TextTypes == {"paragraph", "heading_1", "heading_2", "heading_3", "quote",
              "bulleted_list_item", "numbered_list_item"}

\* blockData.caption && blockData.caption.length > 0 ? { caption: ... } : {}
WithCaption(o, blockData) ==
    IF Truthy(Get(blockData, "caption")) /\ Length(Get(blockData, "caption")) > 0
    THEN Put(o, "caption", minimizeRichText(Get(blockData, "caption")))
    ELSE o

RECURSIVE minimizeBlock(_)

\* array.map(child => minimizeBlock(child))
MinimizeAll(a) == Arr([i \in 1..Len(a.v) |-> minimizeBlock(a.v[i])])

\* blockData.children && blockData.children.length > 0 ? { children: ... } : {}
WithChildren(o, blockData) ==
    IF Truthy(Get(blockData, "children")) /\ Length(Get(blockData, "children")) > 0
    THEN Put(o, "children", MinimizeAll(Get(blockData, "children")))
    ELSE o

\* minimized[type], branch by branch
MinimizedPayload(blockType, blockData) ==
    LET text == Obj([text |-> minimizeRichText(Get(blockData, "text"))])
        empty == Obj(<<>>)
    IN  CASE blockType \in TextTypes -> WithChildren(text, blockData)
          [] blockType = "callout" ->
                WithChildren(
                    Put(text, "icon",
                        IF Truthy(Get(blockData, "icon"))
                        THEN Obj([emoji |-> Get(Get(blockData, "icon"), "emoji"),
                                  type |-> Get(Get(blockData, "icon"), "type")])
                        ELSE Undefined),
                    blockData)
          [] blockType \in {"image", "video"} ->
                WithCaption(
                    IF StrictEq(Get(blockData, "type"), Str("external"))
                    THEN Obj([type |-> Get(blockData, "type"),
                              external |-> Obj([url |-> Get(Get(blockData, "external"), "url")])])
                    ELSE Obj([type |-> Get(blockData, "type"),
                              file |-> Obj([url |-> Get(Get(blockData, "file"), "url"),
                                            expiry_time |-> Get(Get(blockData, "file"), "expiry_time")])]),
                    blockData)
          [] blockType = "code" ->
                WithCaption(
                    Obj([text |-> IF Truthy(Get(blockData, "text"))
                                  THEN minimizeRichText(Get(blockData, "text"))
                                  ELSE Arr(<<>>),
                         language |-> Or(Get(blockData, "language"), Str("plain text"))]),
                    blockData)
          [] blockType = "divider" -> empty
          [] blockType = "embed" ->
                WithCaption(Obj([url |-> Get(blockData, "url")]), blockData)
          [] blockType = "table" ->
                WithChildren(
                    Obj([has_column_header |-> Or(Get(blockData, "has_column_header"), Bool(FALSE)),
                         has_row_header |-> Or(Get(blockData, "has_row_header"), Bool(FALSE))]),
                    blockData)
          [] blockType = "table_row" ->
                Obj([cells |->
                       IF Truthy(Get(blockData, "cells"))
                       THEN LET cells == Get(blockData, "cells").v
                            IN  Arr([i \in 1..Len(cells) |-> minimizeRichText(cells[i])])
                       ELSE Arr(<<>>)])
          [] blockType = "column_list" ->
                Obj([children |->
                       IF Truthy(Get(blockData, "children"))
                       THEN MinimizeAll(Get(blockData, "children"))
                       ELSE Arr(<<>>)])
          [] blockType = "column" ->
                IF Truthy(Get(blockData, "column"))
                THEN Obj([column |-> MinimizeAll(Get(blockData, "column"))])
                ELSE IF Truthy(Get(blockData, "children"))
                THEN Obj([children |-> MinimizeAll(Get(blockData, "children"))])
                ELSE empty
          [] OTHER ->
                IF Truthy(blockData) /\ Truthy(Get(blockData, "text"))
                THEN WithChildren(text, blockData)
                ELSE IF Truthy(blockData) THEN blockData
                ELSE empty

minimizeBlock(block) ==
    LET type == Get(block, "type")
        minimized == Obj([id |-> Get(block, "id"), type |-> type,
                          has_children |-> Get(block, "has_children")])
    IN  Put(minimized, type.v, MinimizedPayload(type.v, Get(block, type.v)))

(***************************************************************************)
(* Page/Block Tree Fetcher: mapDatabaseItemToPageProps                     *)
(*                                                                         *)
(* getPage and getBlocks are taken here at their outcome (the page, the    *)
(* whole listing, or a rejection); their pagination and caching are the    *)
(* subject of SpecCache.                                                   *)
(***************************************************************************)

\* Number of immediate blocks of the page.
MaxTop == 2

\* A block as the service lists it: { id, type, has_children, [type]: payload }
Block(id, type, hasChildren, payload) ==
    Put(Obj([id |-> Str(id), type |-> Str(type), has_children |-> Bool(hasChildren)]),
        type, payload)

PlainAnnotations ==
    Obj([bold |-> Bool(FALSE), italic |-> Bool(FALSE), strikethrough |-> Bool(FALSE),
         underline |-> Bool(FALSE), code |-> Bool(FALSE), color |-> Str("default")])

\* the rich text of one unformatted span
RichText(s) ==
    Arr(<< Obj([type |-> Str("text"), plain_text |-> Str(s), annotations |-> PlainAnnotations,
                text |-> Obj([content |-> Str(s), link |-> Null]), href |-> Null]) >>)

TextPayload(s) == Obj([text |-> RichText(s)])

\* The blocks a page may list, by id:
\*   leaf  a paragraph without children
\*   tog   a paragraph with two children, the second with a child of its own
\*   quo   a quote with one child
\*   emb   a paragraph whose payload already holds its child
\*   cl    a column_list of two columns, the first holding a paragraph
TopChoices ==
    { Block("leaf", "paragraph", FALSE, TextPayload("leaf")),
      Block("tog", "paragraph", TRUE, TextPayload("tog")),
      Block("quo", "quote", TRUE, TextPayload("quo")),
      Block("emb", "paragraph", TRUE,
            Put(TextPayload("emb"), "children",
                Arr(<< Block("emb.1", "paragraph", FALSE, TextPayload("emb.1")) >>))),
      Block("cl", "column_list", TRUE, Obj(<<>>)) }

\* The service's listing of the children of block `id`.
ServiceChildren(id) ==
    CASE id = "tog" -> << Block("tog.1", "paragraph", FALSE, TextPayload("tog.1")),
                          Block("tog.2", "bulleted_list_item", TRUE, TextPayload("tog.2")) >>
      [] id = "tog.2" -> << Block("tog.2.1", "paragraph", FALSE, TextPayload("tog.2.1")) >>
      [] id = "quo" -> << Block("quo.1", "paragraph", FALSE, TextPayload("quo.1")) >>
      [] id = "emb" -> << Block("emb.1", "paragraph", FALSE, TextPayload("emb.1")) >>
      [] id = "cl" -> << Block("cl.a", "column", TRUE, Obj(<<>>)),
                         Block("cl.b", "column", FALSE, Obj(<<>>)) >>
      [] id = "cl.a" -> << Block("cl.a.1", "paragraph", FALSE, TextPayload("cl.a.1")) >>
      [] OTHER -> << >>

\* The listings of at most n blocks, no block listed twice.
TopListings(n) ==
    { l \in UNION { [1..k -> TopChoices] : k \in 0..n } :
        \A i, j \in 1..Len(l) : i # j => l[i] # l[j] }

IdOf(block) == Get(block, "id").v
TypeOf(block) == Get(block, "type").v

IsColumnList(block) == StrictEq(Get(block, "type"), Str("column_list"))

\* the filter of blocksNeedingChildren
NeedsChildren(block) ==
    \/ IsColumnList(block)
    \/ /\ Truthy(Get(block, "has_children"))
       /\ ~Truthy(Get(Get(block, TypeOf(block)), "children"))

\* the ids of the elements of a sequence of blocks
IdsOf(blocks) == { IdOf(blocks[i]) : i \in 1..Len(blocks) }

NoMap == [k \in {} |-> Null]
MapPut(m, k, v) == [x \in (DOMAIN m) \cup {k} |-> IF x = k THEN v ELSE m[x]]

\* childrenMap's entry for a column_list: { columns, columnChildren }
ColumnEntry(columns, columnChildren) ==
    [t |-> "cols", columns |-> columns, columnChildren |-> columnChildren]

\* childData.columns.map(c => ({ ...c, column: childData.columnChildren.get(c.id) || [] }))
ColumnData(childData) ==
    [i \in 1..Len(childData.columns) |->
        LET c == childData.columns[i]
        IN  Put(c, "column",
                IF IdOf(c) \in DOMAIN childData.columnChildren
                THEN childData.columnChildren[IdOf(c)]
                ELSE Arr(<<>>))]

\* Mutant of ParsedBlock: the children attached are those of whichever listing
\* childrenMap yields first, not those stored under the block's id.
ParsedBlock_AnyEntry(block, childrenMap) ==
    IF IsColumnList(block)
    THEN Put(block, TypeOf(block),
             Put(Get(block, TypeOf(block)), "children",
                 Arr(ColumnData(childrenMap[IdOf(block)]))))
    ELSE IF NeedsChildren(block)
    THEN Put(block, TypeOf(block),
             Put(Get(block, TypeOf(block)), "children",
                 childrenMap[CHOOSE k \in DOMAIN childrenMap : childrenMap[k].t = "arr"]))
    ELSE block

\* parsedBlock: the block with its prefetched children attached
ParsedBlock(block, childrenMap) ==
    IF IsColumnList(block)
    THEN Put(block, TypeOf(block),
             Put(Get(block, TypeOf(block)), "children",
                 Arr(ColumnData(childrenMap[IdOf(block)]))))
    ELSE IF NeedsChildren(block)
    THEN Put(block, TypeOf(block),
             Put(Get(block, TypeOf(block)), "children", childrenMap[IdOf(block)]))
    ELSE block

\* blocks.map(block => minimizeBlock(parsedBlock))
ParsedBlocks(blocks, childrenMap) ==
    [i \in 1..Len(blocks) |-> minimizeBlock(ParsedBlock(blocks[i], childrenMap))]

TreeIdle ==
    /\ trTop = << >> /\ trPc = "idle" /\ trPage = Undefined /\ trBlocks = Undefined
    /\ trPending = {} /\ trCols = NoMap /\ trMap = NoMap /\ trResult = Undefined

\* mapDatabaseItemToPageProps("p1") has started getPage and getBlocks
TreeInit ==
    /\ trTop \in TopListings(MaxTop)
    /\ trPc = "fetching" /\ trPage = Undefined /\ trBlocks = Undefined
    /\ trPending = {"page:p1", "p1"}
    /\ trCols = NoMap /\ trMap = NoMap /\ trResult = Undefined

\* With `pending` fetches left and childrenMap `m`: the second Promise.all is
\* still waiting, or resolves and the result { page, blocks: parsedBlocks } is built.
Settle(pending, m, page, blocks) ==
    IF pending = {}
    THEN /\ trPc' = "returned"
         /\ trResult' = [page |-> page, blocks |-> Arr(ParsedBlocks(blocks, m))]
    ELSE /\ trPc' = "children"
         /\ trResult' = trResult

\* Both of getPage and getBlocks are in: the child fetches start, all at once.
Launch(page, blocks) ==
    LET need == { IdOf(blocks[i]) : i \in { j \in 1..Len(blocks) : NeedsChildren(blocks[j]) } }
    IN  /\ trPending' = need
        /\ Settle(need, trMap, page, blocks)

\* getPage resolves
TreePageArrives ==
    /\ trPc = "fetching" /\ "page:p1" \in trPending
    /\ trPage' = PageObject("p1")
    /\ UNCHANGED <<trTop, trBlocks, trCols, trMap>>
    /\ IF trBlocks # Undefined
       THEN Launch(PageObject("p1"), trBlocks.v)
       ELSE /\ trPending' = trPending \ {"page:p1"}
            /\ UNCHANGED <<trPc, trResult>>

\* getBlocks(id) resolves with the page's immediate blocks
TreeBlocksArrive ==
    /\ trPc = "fetching" /\ "p1" \in trPending
    /\ trBlocks' = Arr(trTop)
    /\ UNCHANGED <<trTop, trPage, trCols, trMap>>
    /\ IF trPage # Undefined
       THEN Launch(trPage, trTop)
       ELSE /\ trPending' = trPending \ {"p1"}
            /\ UNCHANGED <<trPc, trResult>>

TopBlock(id) == CHOOSE b \in { trTop[i] : i \in 1..Len(trTop) } : IdOf(b) = id

\* getBlocks(block.id) resolves for a block that is no column_list
TreeChildrenArrive ==
    /\ trPc = "children"
    /\ \E id \in trPending \cap IdsOf(trTop) :
         /\ ~IsColumnList(TopBlock(id))
         /\ trMap' = MapPut(trMap, id, Arr(ServiceChildren(id)))
         /\ trPending' = trPending \ {id}
         /\ Settle(trPending \ {id}, trMap', trPage, trBlocks.v)
    /\ UNCHANGED <<trTop, trPage, trBlocks, trCols>>

\* getBlocks(b.id) resolves for a column_list: the fetches of its columns start
TreeColumnsArrive ==
    /\ trPc = "children"
    /\ \E id \in trPending \cap IdsOf(trTop) :
         /\ IsColumnList(TopBlock(id))
         /\ LET columns == ServiceChildren(id) IN
            IF columns = << >>
            THEN /\ trMap' = MapPut(trMap, id, ColumnEntry(columns, NoMap))
                 /\ trCols' = trCols
                 /\ trPending' = trPending \ {id}
                 /\ Settle(trPending \ {id}, trMap', trPage, trBlocks.v)
            ELSE /\ trCols' = MapPut(trCols, id, ColumnEntry(columns, NoMap))
                 /\ trPending' = (trPending \ {id}) \cup IdsOf(columns)
                 /\ UNCHANGED <<trMap, trPc, trResult>>
    /\ UNCHANGED <<trTop, trPage, trBlocks>>

\* getBlocks(c.id) resolves for a column c; with the last column of its
\* column_list, childrenMap.set(b.id, { columns, columnChildren })
TreeColumnChildrenArrive ==
    /\ trPc = "children"
    /\ \E cl \in DOMAIN trCols :
         \E id \in trPending \cap IdsOf(trCols[cl].columns) :
            LET got == MapPut(trCols[cl].columnChildren, id, Arr(ServiceChildren(id)))
                done == IdsOf(trCols[cl].columns) \subseteq DOMAIN got
            IN  /\ trCols' = [trCols EXCEPT ![cl].columnChildren = got]
                /\ trPending' = trPending \ {id}
                /\ trMap' = IF done
                            THEN MapPut(trMap, cl, ColumnEntry(trCols[cl].columns, got))
                            ELSE trMap
                /\ Settle(trPending \ {id}, trMap', trPage, trBlocks.v)
    /\ UNCHANGED <<trTop, trPage, trBlocks>>

\* Mutant of TreeFetchFails: a child fetch that fails counts as an empty listing
\* and the page is built without those children.
TreeFetchFails_Degrades ==
    /\ trPc = "children"
    /\ \E id \in trPending \cap IdsOf(trTop) :
         /\ ~IsColumnList(TopBlock(id))
         /\ trMap' = MapPut(trMap, id, Arr(<< >>))
         /\ trPending' = trPending \ {id}
         /\ Settle(trPending \ {id}, trMap', trPage, trBlocks.v)
    /\ UNCHANGED <<trTop, trPage, trBlocks, trCols>>

\* a fetch in flight rejects (withRetry throws): Promise.all rejects with it
TreeFetchFails ==
    /\ trPc \in {"fetching", "children"} /\ trPending # {}
    /\ trPc' = "thrown"
    /\ UNCHANGED <<trTop, trPage, trBlocks, trPending, trCols, trMap, trResult>>

(***************************************************************************)
(* Blocks drawn for the minimizer                                          *)
(***************************************************************************)

\* Depth of nesting of the drawn block trees.
MaxNesting == 2

\* A rich text span with the given annotations, text object and href.
Span(annotations, textObj, href) ==
    Obj([type |-> Str("text"), plain_text |-> Str("x"), annotations |-> annotations,
         text |-> textObj, href |-> href])

\* The spans drawn: plain; bold; coloured only; linked; with empty content; with
\* nothing but its plain text; a mention (a type other than text, with a key
\* the minimizer does not read).
SpanChoices ==
    << Span(PlainAnnotations, Obj([content |-> Str("x"), link |-> Null]), Null),
       Span(Put(PlainAnnotations, "bold", Bool(TRUE)),
            Obj([content |-> Str("x"), link |-> Null]), Null),
       Span(Put(PlainAnnotations, "color", Str("red")),
            Obj([content |-> Str("x"), link |-> Null]), Null),
       Span(PlainAnnotations,
            Obj([content |-> Str("x"), link |-> Obj([url |-> Str("u"), type |-> Str("url")])]),
            Str("u")),
       Span(Obj([bold |-> Bool(TRUE)]), Obj([content |-> Str(""), link |-> Null]), Null),
       Obj([plain_text |-> Str("x")]),
       Obj([type |-> Str("mention"), plain_text |-> Str("x"), annotations |-> PlainAnnotations,
            mention |-> Obj([type |-> Str("user")]), href |-> Null]) >>

\* The rich texts drawn: empty, one span of each kind, two spans.
RichTextChoices ==
    {Arr(<< >>), Arr(<< SpanChoices[2], SpanChoices[4] >>)}
    \cup { Arr(<< SpanChoices[i] >>) : i \in 1..Len(SpanChoices) }

\* A block as the service returns it, with metadata the renderer does not need.
RawBlock(id, type, hasChildren, payload) ==
    Put(Put(Block(id, type, hasChildren, payload), "object", Str("block")),
        "created_time", Str("2023-03-01T00:00:00.000Z"))

\* The payloads of image and video blocks: external or hosted, with or without caption.
MediaPayloads ==
    { Put(m, "caption", c) :
        m \in { Obj([type |-> Str("external"), external |-> Obj([url |-> Str("u")])]),
                Obj([type |-> Str("file"),
                     file |-> Obj([url |-> Str("u"), expiry_time |-> Str("e")])]) },
        c \in { Arr(<< >>), Arr(<< SpanChoices[1] >>), Arr(<< SpanChoices[2] >>) } }

CodePayloads ==
    { Obj([text |-> RichText("c"), language |-> Str("js"), caption |-> Arr(<< >>)]),
      Obj([text |-> RichText("c"), language |-> Str("js"), caption |-> Arr(<< SpanChoices[3] >>)]),
      Obj([language |-> Str("")]),
      Obj(<< >>) }

\* The blocks drawn that hold no child blocks.
LeafBlocks ==
    { RawBlock("b", ty, FALSE, Obj([text |-> rt])) : ty \in TextTypes, rt \in RichTextChoices }
    \cup { RawBlock("b", "paragraph", FALSE, Obj([text |-> RichText("p"), children |-> Arr(<< >>)])),
           RawBlock("b", "paragraph", TRUE, Obj([text |-> RichText("p")])),
           RawBlock("b", "callout", FALSE, Obj([text |-> RichText("c")])),
           RawBlock("b", "callout", FALSE,
                    Obj([text |-> RichText("c"),
                         icon |-> Obj([type |-> Str("emoji"), emoji |-> Str("!")])])),
           RawBlock("b", "divider", FALSE, Obj(<< >>)),
           RawBlock("b", "embed", FALSE, Obj([url |-> Str("u"), caption |-> Arr(<< >>)])),
           RawBlock("b", "embed", FALSE, Obj([url |-> Str("u"), caption |-> RichText("e")])),
           RawBlock("b", "table", TRUE,
                    Obj([table_width |-> Num(2), has_column_header |-> Bool(TRUE),
                         has_row_header |-> Bool(FALSE)])),
           RawBlock("b", "table", TRUE, Obj([table_width |-> Num(2)])),
           RawBlock("b", "table_row", FALSE,
                    Obj([cells |-> Arr(<< RichText("a"), Arr(<< SpanChoices[2] >>) >>)])),
           RawBlock("b", "table_row", FALSE, Obj(<< >>)),
           RawBlock("b", "column_list", TRUE, Obj(<< >>)),
           RawBlock("b", "column", TRUE, Obj(<< >>)),
           RawBlock("b", "bookmark", FALSE, Obj([url |-> Str("u"), caption |-> Arr(<< >>)])),
           RawBlock("b", "to_do", FALSE, Obj([text |-> RichText("t"), checked |-> Bool(TRUE)])),
           RawBlock("b", "child_page", FALSE, Obj([title |-> Str("t")])),
           Obj([id |-> Str("b"), type |-> Str("unsupported"), has_children |-> Bool(FALSE)]) }
    \cup { RawBlock("b", ty, FALSE, m) : ty \in {"image", "video"}, m \in MediaPayloads }
    \cup { RawBlock("b", "code", FALSE, c) : c \in CodePayloads }

\* The ways a block holds a child block c: in its payload's children (text
\* types, callout, table, column_list, column, a type with text the minimizer
\* does not know, a type without text it does not know), in a column's `column`,
\* and as a column's payload itself being the array.
Containers(c) ==
    { RawBlock("k", "paragraph", TRUE, Obj([text |-> RichText("p"), children |-> Arr(<< c >>)])),
      RawBlock("k", "bulleted_list_item", TRUE,
               Obj([text |-> RichText("p"), children |-> Arr(<< c, c >>)])),
      RawBlock("k", "callout", TRUE, Obj([text |-> RichText("p"), children |-> Arr(<< c >>)])),
      RawBlock("k", "table", TRUE, Obj([table_width |-> Num(1), children |-> Arr(<< c >>)])),
      RawBlock("k", "column_list", TRUE, Obj([children |-> Arr(<< c >>)])),
      RawBlock("k", "column", TRUE, Obj([children |-> Arr(<< c >>)])),
      RawBlock("k", "column", TRUE, Obj([column |-> Arr(<< c >>)])),
      RawBlock("k", "column", TRUE, Arr(<< c >>)),
      RawBlock("k", "toggle", TRUE, Obj([text |-> RichText("p"), children |-> Arr(<< c >>)])),
      RawBlock("k", "synced_block", TRUE, Obj([children |-> Arr(<< c >>)])) }

\* The leaves the nested trees end in.
CoreLeaves ==
    { RawBlock("b", "paragraph", FALSE, Obj([text |-> Arr(<< SpanChoices[3] >>)])),
      RawBlock("b", "table_row", FALSE, Obj([cells |-> Arr(<< RichText("a") >>)])),
      RawBlock("b", "bookmark", FALSE, Obj([url |-> Str("u")])) }

\* The block trees nested at most d deep.
RECURSIVE Nested(_)
Nested(d) ==
    IF d = 0 THEN CoreLeaves
    ELSE CoreLeaves \cup UNION { Containers(c) : c \in Nested(d - 1) }

MinimizerInputs == LeafBlocks \cup Nested(MaxNesting)

MinIdle == mnIn = Undefined /\ mnOnce = Undefined /\ mnTwice = Undefined /\ mnPc = "idle"

MinInit ==
    /\ mnIn \in MinimizerInputs
    /\ mnOnce = Undefined /\ mnTwice = Undefined /\ mnPc = "ready"

\* minimizeBlock(block)
MinimizeOnce ==
    /\ mnPc = "ready"
    /\ mnOnce' = minimizeBlock(mnIn)
    /\ mnPc' = "once"
    /\ UNCHANGED <<mnIn, mnTwice>>

\* minimizeBlock of the block minimizeBlock returned
MinimizeTwice ==
    /\ mnPc = "once"
    /\ mnTwice' = minimizeBlock(mnOnce)
    /\ mnPc' = "twice"
    /\ UNCHANGED <<mnIn, mnOnce>>

(***************************************************************************)
(* Specifications                                                          *)
(***************************************************************************)
vars == <<groupVars, retryVars, cacheVars, treeVars, minVars>>

InitGroup == GroupInit /\ RetryIdle /\ CacheIdle /\ TreeIdle /\ MinIdle
NextGroup == GroupListBlocks /\ UNCHANGED <<retryVars, cacheVars, treeVars, minVars>>
SpecGroup == InitGroup /\ [][NextGroup]_vars

InitRetry == RetryInit /\ GroupIdle /\ CacheIdle /\ TreeIdle /\ MinIdle
NextRetry ==
    \/ AttemptReturns /\ UNCHANGED <<groupVars, cacheVars, treeVars, minVars>>
    \/ AttemptThrows /\ UNCHANGED <<groupVars, cacheVars, treeVars, minVars>>
    \/ AttemptRetries /\ UNCHANGED <<groupVars, cacheVars, treeVars, minVars>>
SpecRetry == InitRetry /\ [][NextRetry]_vars

InitCache == CacheInit /\ GroupIdle /\ RetryIdle /\ TreeIdle /\ MinIdle
NextCache ==
    \/ GetDatabaseBegin /\ UNCHANGED <<groupVars, retryVars, treeVars, minVars>>
    \/ GetDatabasePage /\ UNCHANGED <<groupVars, retryVars, treeVars, minVars>>
    \/ GetPostBySlugBegin /\ UNCHANGED <<groupVars, retryVars, treeVars, minVars>>
    \/ GetPostBySlugResponse /\ UNCHANGED <<groupVars, retryVars, treeVars, minVars>>
    \/ GetPageBegin /\ UNCHANGED <<groupVars, retryVars, treeVars, minVars>>
    \/ GetPageResponse /\ UNCHANGED <<groupVars, retryVars, treeVars, minVars>>
    \/ GetBlocksBegin /\ UNCHANGED <<groupVars, retryVars, treeVars, minVars>>
    \/ GetBlocksPage /\ UNCHANGED <<groupVars, retryVars, treeVars, minVars>>
    \/ RequestFails /\ UNCHANGED <<groupVars, retryVars, treeVars, minVars>>
    \/ Tick /\ UNCHANGED <<groupVars, retryVars, treeVars, minVars>>
SpecCache == InitCache /\ [][NextCache]_vars

\* The collection and single-item queries and getBlocks over drawn contents.
InitQuery == DrawnInit /\ GroupIdle /\ RetryIdle /\ TreeIdle /\ MinIdle
NextQuery ==
    \/ GetDatabaseBegin /\ UNCHANGED <<groupVars, retryVars, treeVars, minVars>>
    \/ GetDatabasePage /\ UNCHANGED <<groupVars, retryVars, treeVars, minVars>>
    \/ GetPostBySlugBegin /\ UNCHANGED <<groupVars, retryVars, treeVars, minVars>>
    \/ GetPostBySlugResponse /\ UNCHANGED <<groupVars, retryVars, treeVars, minVars>>
    \/ GetBlocksBegin /\ UNCHANGED <<groupVars, retryVars, treeVars, minVars>>
    \/ GetBlocksPage /\ UNCHANGED <<groupVars, retryVars, treeVars, minVars>>
SpecQuery == InitQuery /\ [][NextQuery]_vars

InitTree == TreeInit /\ GroupIdle /\ RetryIdle /\ CacheIdle /\ MinIdle
NextTree ==
    \/ TreePageArrives /\ UNCHANGED <<groupVars, retryVars, cacheVars, minVars>>
    \/ TreeBlocksArrive /\ UNCHANGED <<groupVars, retryVars, cacheVars, minVars>>
    \/ TreeChildrenArrive /\ UNCHANGED <<groupVars, retryVars, cacheVars, minVars>>
    \/ TreeColumnsArrive /\ UNCHANGED <<groupVars, retryVars, cacheVars, minVars>>
    \/ TreeColumnChildrenArrive /\ UNCHANGED <<groupVars, retryVars, cacheVars, minVars>>
    \/ TreeFetchFails /\ UNCHANGED <<groupVars, retryVars, cacheVars, minVars>>
SpecTree == InitTree /\ [][NextTree]_vars

\* minimizeBlock applied to a drawn block, and again to its own output.
InitMin == MinInit /\ GroupIdle /\ RetryIdle /\ CacheIdle /\ TreeIdle
NextMin ==
    \/ MinimizeOnce /\ UNCHANGED <<groupVars, retryVars, cacheVars, treeVars>>
    \/ MinimizeTwice /\ UNCHANGED <<groupVars, retryVars, cacheVars, treeVars>>
SpecMin == InitMin /\ [][NextMin]_vars

(***************************************************************************)
(* Claims                                                                  *)
(***************************************************************************)

\* The list kind a ListBlock's type stands for.
KindOf(listType) == IF listType = "ul" THEN "bulleted_list_item" ELSE "numbered_list_item"

\* C1: every ListBlock returned by groupListBlocks holds items of one list kind
\* only, the kind its type names: a bulleted run and a numbered run are never
\* merged into one ListBlock.
C1_NeverMergesKinds ==
    glPc = "done" =>
        \A k \in 1..Len(glOut) :
            IsListBlock(glOut[k]) =>
                \A j \in 1..Len(glOut[k].items) :
                    glOut[k].items[j].type = KindOf(glOut[k].type)

\* The error withTimeout rejects with when an attempt exceeds TIMEOUT_MS.
IsTimeoutRejection(e) ==
    e # Undefined /\ e.message = TimeoutError(TIMEOUT_MS).message /\ e.code = Undefined

\* C2: an attempt that fails by exceeding the per-attempt timeout is retried while
\* fewer than 5 retries have been made: withRetry throws the timeout error to its
\* caller only from the last (6th) attempt.
C2_TimeoutIsRetried ==
    (rtPc = "thrown" /\ IsTimeoutRejection(rtResult)) => rtCalls = MAX_RETRIES + 1

AllRetryable(h) == \A i \in 1..Len(h) : h[i] = "retryable"

\* C3: after k <= 5 retryable failures and nothing else withRetry is still
\* attempting, and when the next invocation succeeds withRetry returns that
\* success value, the operation having been invoked exactly k+1 times.
C3_RetriesThenSuccess ==
    /\ isRetryableError(RespErr(Num(503), M_unavailable))
    /\ (AllRetryable(rtHistory) /\ Len(rtHistory) <= 5) =>
           /\ rtPc = "running"
           /\ rtCalls = Len(rtHistory)
    /\ \A k \in 0..5 :
         (/\ Len(rtHistory) = k + 1
          /\ AllRetryable(SubSeq(rtHistory, 1, k))
          /\ rtHistory[k + 1] = "ok") =>
             /\ rtPc = "returned"
             /\ rtResult \in FnValues
             /\ rtCalls = k + 1

\* C3's case: two retryable failures, then a success on the third invocation.
C3_Witness ==
    rtPc = "returned" /\ rtHistory = <<"retryable", "retryable", "ok">> /\ rtCalls = 3

\* C4: a non-retryable failure is propagated at once: it is the last invocation
\* (no further attempt), the error thrown is the error of that invocation, and no
\* backoff sleep was made for it (one sleep per earlier retryable failure only).
C4_NonRetryablePropagates ==
    \A i \in 1..Len(rtHistory) :
        rtHistory[i] = "fatal" =>
            /\ i = Len(rtHistory)
            /\ rtCalls = i
            /\ rtPc = "thrown"
            /\ rtResult.seq = i
            /\ ~isRetryableError(rtResult)
            /\ Len(rtSleeps) = i - 1

\* C4's case: an HTTP 400 on the third attempt, after two retried failures.
C4_Witness ==
    /\ rtPc = "thrown" /\ rtHistory = <<"retryable", "retryable", "fatal">>
    /\ rtResult.status = Num(400)

\* C5: the operation is invoked at most 6 times and withRetry has ended once it
\* has been invoked 6 times; when all 6 attempts fail with a retryable error the
\* error thrown is the error of the 6th attempt.
C5_AtMostSixInvocations ==
    /\ rtCalls <= 6
    /\ rtCalls = 6 => rtPc \in {"returned", "thrown"}
    /\ (AllRetryable(rtHistory) /\ rtPc = "thrown") =>
           /\ rtCalls = 6
           /\ rtResult.seq = 6
           /\ rtResult = rtLastError
    /\ (AllRetryable(rtHistory) /\ Len(rtHistory) = 6) => rtPc = "thrown"

\* C5's case: six retryable failures in a row.
C5_Witness == rtPc = "thrown" /\ Len(rtHistory) = 6 /\ AllRetryable(rtHistory)

\* the number a string of digits denotes
RECURSIVE ParseInt(_)
ParseInt(ds) ==
    IF ds = <<>> THEN 0
    ELSE 10 * ParseInt(SubSeq(ds, 1, Len(ds) - 1))
         + (CHOOSE k \in 0..9 : DigitChars[k + 1] = ds[Len(ds)])

\* The HTTP statuses an error of the content service indicates: its status
\* field, or the status its message states.
IndicatedStatuses(e) ==
    IF e.code # Str("notionhq_client_response_error") THEN {}
    ELSE (IF e.status.t = "num" THEN {e.status.v} ELSE {})
         \cup (IF e.message.t = "str" /\ MatchStatus(e.message.v) # Undefined
               THEN {ParseInt(MatchStatus(e.message.v).v)} ELSE {})

\* The classification C6 states.
StatedRetryable(e) ==
    \/ IndicatedStatuses(e) \cap {429, 502, 503, 504} # {}
    \/ e.code \in {Str("ECONNRESET"), Str("ETIMEDOUT"), Str("ENOTFOUND")}
    \/ MessageIncludes(e, C_timeout) \/ MessageIncludes(e, C_TIMEOUT)

\* C6: isRetryableError is true exactly for the errors that indicate HTTP 429,
\* 502, 503 or 504, or carry code ECONNRESET, ETIMEDOUT or ENOTFOUND, or mention
\* "timeout" in their message, each condition being sufficient alone.
C6_RetryableExactly ==
    rtLastError # Undefined =>
        (isRetryableError(rtLastError) <=> StatedRetryable(rtLastError))

\* The cache keys of the queries made.
AllKeys ==
    {DatabaseKey("d1", b) : b \in BOOLEAN} \cup {PostBySlugKey("d1", sl) : sl \in Slugs}
    \cup {PageKey("p1"), BlocksKey("p1")}

\* C7: outside development mode the cache map stays empty, every getCached read
\* misses, and every query (a repeated one with the same key included) issues at
\* least one service request and never answers from the cache.
C7_NoCacheOutsideDev ==
    ~isDev =>
        /\ DOMAIN cache = {}
        /\ \A k \in AllKeys : getCached(cache, k, now).ret = Null
        /\ call.op # "none" =>
               /\ ~call.fromCache
               /\ call.read = Null
               /\ call.requests >= 1

\* C7's case: outside development mode, a query with the key of the query before
\* it has returned after invoking the service.
C7_Witness ==
    /\ ~isDev /\ call.op # "none" /\ call.prevKey = call.key
    /\ call.phase = "returned" /\ call.requests >= 1

\* What C8 says of a query that finds an entry `age` ms old under its key, the
\* entry counting as expired when `expired` holds: an unexpired entry is read back (and,
\* the stored value not being the null of C9, returned without a service
\* request); an expired one reads as absent, is removed, and the service is asked.
ExpiryAt(expired) ==
    (isDev /\ call.op # "none" /\ call.age >= 0) =>
        /\ ~expired =>
               /\ call.read = call.stored
               /\ call.stored # Null =>
                      /\ call.fromCache /\ call.requests = 0
                      /\ call.phase = "returned" /\ call.value = call.stored
        /\ expired =>
               /\ call.read = Null
               /\ ~call.fromCache /\ call.requests >= 1
               /\ call.phase = "fetching" => call.key \notin DOMAIN cache

\* C8 as stated: in development mode an entry read less than 60000 ms after it was
\* written is returned without invoking the service, and an entry read once
\* 60000 ms have elapsed is treated as absent, removed, and fetched again.
C8_ExpiresAt60000 == ExpiryAt(call.age >= 60000)

\* C8, amended: in development mode an entry read at most 60000 ms after it was
\* written is returned without invoking the service, and an entry read when more
\* than 60000 ms have elapsed is treated as absent, removed, and fetched again.
C8_ExpiresAfter60000 == ExpiryAt(call.age > 60000)

\* C8's case: a query that finds an entry exactly 60000 ms old and returns it.
C8_Witness ==
    /\ isDev /\ call.age = 60000 /\ call.stored # Null
    /\ call.fromCache /\ call.requests = 0

\* C9: in development mode a getPostBySlug that finds an unexpired entry holding
\* null under its key returns null without issuing a query to the service.
C9_NullIsCached ==
    (/\ isDev /\ call.op = "getPostBySlug"
     /\ call.age >= 0 /\ call.age < 60000 /\ call.stored = Null) =>
        /\ call.requests = 0
        /\ call.phase = "returned" /\ call.value = Null

\* The child blocks a minimized block carries in its payload.
CarriedChildren(block) ==
    LET payload == Get(block, TypeOf(block))
    IN  IF Get(payload, "children").t = "arr" THEN Get(payload, "children").v
        ELSE IF Get(payload, "column").t = "arr" THEN Get(payload, "column").v
        ELSE << >>

\* Every block of the tree that is flagged has_children carries children.
RECURSIVE FullyResolved(_)
FullyResolved(block) ==
    /\ Truthy(Get(block, "has_children")) => CarriedChildren(block) # << >>
    /\ \A i \in 1..Len(CarriedChildren(block)) : FullyResolved(CarriedChildren(block)[i])

\* C10: the block tree mapDatabaseItemToPageProps returns is fully resolved: at
\* every depth, a block whose has_children flag is true has its children in its
\* payload.
C10_FullyResolvedTree ==
    trPc = "returned" =>
        \A i \in 1..Len(trResult.blocks.v) : FullyResolved(trResult.blocks.v[i])

\* The entries a minimized column_list carries (its payload's children).
ColumnEntries(block) == Get(Get(block, "column_list"), "children")

\* C11: for every column_list among the page's immediate blocks the output holds,
\* under that column_list, one entry per column in listing order, and each column
\* entry holds the minimized sequence of the blocks fetched for that column.
C11_ColumnsRetained ==
    trPc = "returned" =>
        \A i \in 1..Len(trTop) :
            IsColumnList(trTop[i]) =>
                LET columns == ServiceChildren(IdOf(trTop[i]))
                    out == ColumnEntries(trResult.blocks.v[i])
                IN  /\ out.t = "arr"
                    /\ Len(out.v) = Len(columns)
                    /\ \A j \in 1..Len(columns) :
                         /\ IdOf(out.v[j]) = IdOf(columns[j])
                         /\ CarriedChildren(out.v[j])
                                = MinimizeAll(Arr(ServiceChildren(IdOf(columns[j])))).v

\* The ids of a sequence of blocks, in order.
IdSeq(blocks) == [i \in 1..Len(blocks) |-> IdOf(blocks[i])]

\* C12: mapDatabaseItemToPageProps has no partial success.  A call in which a
\* fetch failed has thrown and holds no { page, blocks } result; a call that
\* returned had every fetch answered: the page, the immediate blocks, the listing
\* of every block needing children and of every column, each as the service
\* lists it, and every block that is no column_list carries all of its listing.
C12_NoPartialSuccess ==
    /\ trPc = "thrown" => trResult = Undefined
    /\ trPc = "returned" =>
         /\ trPending = {}
         /\ trResult.page = PageObject("p1")
         /\ Len(trResult.blocks.v) = Len(trTop)
         /\ \A i \in 1..Len(trTop) :
              LET b == trTop[i]
                  listed == ServiceChildren(IdOf(b))
              IN  NeedsChildren(b) =>
                    /\ IdOf(b) \in DOMAIN trMap
                    /\ IF IsColumnList(b)
                       THEN /\ trMap[IdOf(b)].columns = listed
                            /\ \A j \in 1..Len(listed) :
                                 /\ IdOf(listed[j]) \in DOMAIN trMap[IdOf(b)].columnChildren
                                 /\ trMap[IdOf(b)].columnChildren[IdOf(listed[j])]
                                        = Arr(ServiceChildren(IdOf(listed[j])))
                       ELSE /\ trMap[IdOf(b)] = Arr(listed)
                            /\ IdSeq(CarriedChildren(trResult.blocks.v[i])) = IdSeq(listed)

\* C12's case: a child fetch fails after another child's listing had arrived;
\* the call has thrown.
C12_Witness ==
    /\ trPc = "thrown" /\ trBlocks # Undefined
    /\ DOMAIN trMap # {} /\ trPending # {}

\* The records of the pages of a listing, in page order.
RECURSIVE Concat(_)
Concat(pages) == IF pages = << >> THEN << >> ELSE Head(pages) \o Concat(Tail(pages))

\* The elements of a sequence.
Range(s) == { s[i] : i \in 1..Len(s) }

\* The five-field completeness of a Post.
Complete(r) ==
    r.date # Null /\ r.description > 0 /\ r.slug > 0 /\ r.title > 0 /\ r.authors > 0

\* The records of the collection that C13 says getDatabase returns.
StatedPosts(includeUnpublished) ==
    { r \in Range(Concat(svc.collection)) : Complete(r) /\ (includeUnpublished \/ r.published) }

\* C13: getDatabase returns exactly the records of the collection that are
\* complete and, unless includeUnpublished, published, each once; every returned
\* post is complete; and the result without unpublished posts is a subset of
\* what the query with them returns for the same collection.
C13_ExactlyTheValidRecords ==
    (call.op = "getDatabase" /\ call.phase = "returned") =>
        /\ Range(call.value.v) = StatedPosts(call.incl)
        /\ Len(call.value.v) = Cardinality(StatedPosts(call.incl))
        /\ \A r \in Range(call.value.v) : Complete(r)
        /\ ~call.incl => Range(call.value.v) \subseteq StatedPosts(TRUE)

\* C13's case: over a collection holding an incomplete record and a complete
\* unpublished one, the query with unpublished posts was made and then the query
\* without them, which returned some posts, fewer than the query before it,
\* which had left a record out.
C13_Witness ==
    /\ call.op = "getDatabase" /\ call.phase = "returned" /\ ~call.incl
    /\ call.prevKey = DatabaseKey("d1", TRUE)
    /\ Len(call.value.v) >= 1
    /\ Len(call.value.v) < Cardinality(StatedPosts(TRUE))
    /\ Cardinality(StatedPosts(TRUE)) < Len(Concat(svc.collection))

\* Calendar date a is not earlier than calendar date b.
NotEarlier(a, b) ==
    \/ a[1] > b[1]
    \/ a[1] = b[1] /\ a[2] > b[2]
    \/ a[1] = b[1] /\ a[2] = b[2] /\ a[3] >= b[3]

\* The place of record r in the service's listing of the collection.
PlaceOf(r) == CHOOSE i \in 1..Len(Concat(svc.collection)) : Concat(svc.collection)[i] = r

\* C14: the result of getDatabase is sorted descending by date: each post's date
\* is not earlier than the date of the post after it; and posts with equal dates
\* are in the order the service listed them.
C14_SortedDescendingStable ==
    (call.op = "getDatabase" /\ call.phase = "returned") =>
        LET out == call.value.v
        IN  /\ \A i \in 1..(Len(out) - 1) :
                 NotEarlier(out[i].date.start, out[i + 1].date.start)
            /\ \A i, j \in 1..Len(out) :
                 (i < j /\ out[i].date.start = out[j].date.start) =>
                     PlaceOf(out[i]) < PlaceOf(out[j])

\* C14's case: the service lists an older post first and two posts of one later
\* date after it; the result has the two later posts first, in listing order.
C14_Witness ==
    /\ call.op = "getDatabase" /\ call.phase = "returned" /\ ~call.fromCache
    /\ Len(call.value.v) = 3
    /\ call.value.v[1].date.start = call.value.v[2].date.start
    /\ call.value.v[2].date.start # call.value.v[3].date.start
    /\ PlaceOf(call.value.v[3]) = 1

\* C15: getPostBySlug returns null when the service returns no record for the
\* slug and when the record it returns lacks a required field (null date, or
\* empty description, slug, title or authors); it returns the service's record
\* when all five fields are present.
C15_InvalidPostIsNull ==
    (call.op = "getPostBySlug" /\ call.phase = "returned") =>
        LET results == svc.bySlug[call.id]
        IN  /\ results = << >> => call.value = Null
            /\ (results # << >> /\ ~Complete(results[1])) => call.value = Null
            /\ (results # << >> /\ Complete(results[1])) => call.value = results[1]

\* C15's case: the service returned a record with a null date, and a record
\* without a title, for the slug; the query returned null.
C15_Witness ==
    /\ call.op = "getPostBySlug" /\ call.phase = "returned" /\ call.requests = 1
    /\ svc.bySlug[call.id] # << >>
    /\ \/ svc.bySlug[call.id][1].date = Null
       \/ svc.bySlug[call.id][1].title = 0
    /\ call.value = Null

\* C16: minimizeBlock is idempotent: applied to its own output it returns that
\* output again, for every drawn block tree (all supported types, the column
\* containers, the types it does not know).
C16_MinimizeIdempotent ==
    mnPc = "twice" => mnTwice = mnOnce

\* C16's case: a nested tree that the first application changed (metadata and
\* unformatted annotations stripped at both levels) was minimized twice.
C16_Witness ==
    /\ mnPc = "twice"
    /\ mnOnce # mnIn
    /\ CarriedChildren(mnOnce) # << >>
    /\ \E i \in 1..Len(CarriedChildren(mnOnce)) :
         CarriedChildren(mnOnce)[i] # CarriedChildren(mnIn)[i]

\* C17: whatever the order in which the concurrent fetches complete, the blocks
\* returned are the page's immediate blocks, one for one: same ids and types in
\* the order of the listing, each block with the children listed for its own id
\* (a column_list with its own columns, in order), and a block that needed no
\* fetch as minimizeBlock renders it.
C17_OrderIndependent ==
    trPc = "returned" =>
        /\ IdSeq(trResult.blocks.v) = IdSeq(trTop)
        /\ \A i \in 1..Len(trTop) :
             LET b == trTop[i]
                 out == trResult.blocks.v[i]
                 listed == ServiceChildren(IdOf(b))
             IN  /\ TypeOf(out) = TypeOf(b)
                 /\ IF IsColumnList(b)
                    THEN IdSeq(ColumnEntries(out).v) = IdSeq(listed)
                    ELSE IF NeedsChildren(b)
                    THEN CarriedChildren(out) = MinimizeAll(Arr(listed)).v
                    ELSE out = minimizeBlock(b)

\* C17's case: two immediate blocks each had their children fetched (the two
\* fetches were in flight together) and the call returned.
C17_Witness ==
    /\ trPc = "returned" /\ Len(trTop) = 2
    /\ \A i \in 1..2 :
         /\ NeedsChildren(trTop[i]) /\ ~IsColumnList(trTop[i])
         /\ CarriedChildren(trResult.blocks.v[i]) # << >>

\* The listing a paginated query walks: the collection, or a block's children.
PagesOf(c) == IF c.op = "getDatabase" THEN svc.collection ELSE ChildPages(c.id)

\* The cursor C18 says the k-th request carries: none for the first, the
\* next_cursor of the response to the request before it for the others.
RECURSIVE StatedCursor(_, _)
StatedCursor(pages, k) ==
    IF k = 1 THEN Undefined
    ELSE ListResponse(pages, StatedCursor(pages, k - 1)).next_cursor

\* C18: a getDatabase or getBlocks that fetches walks the listing page by page.
\* While it fetches, its k-th request (k at most the number of pages) carries
\* the cursor stated above, a cursor the service did report, and it has
\* accumulated the records of pages 1..k-1 in order.  When it has returned it has
\* made one request per page, the last response reported no further cursor, and
\* its result is made of the concatenation of all pages in page order (for
\* getDatabase, filtered and sorted).
C18_CursorUntilExhausted ==
    (call.op \in {"getDatabase", "getBlocks"} /\ ~call.fromCache) =>
        LET pages == PagesOf(call)
            k == call.requests
        IN  /\ k >= 1 /\ k <= Len(pages)
            /\ call.phase = "fetching" =>
                 /\ call.cursor = StatedCursor(pages, k)
                 /\ k > 1 => call.cursor \notin {Null, Undefined}
                 /\ call.results = Concat(SubSeq(pages, 1, k - 1))
            /\ call.phase = "returned" =>
                 /\ k = Len(pages)
                 /\ ListResponse(pages, StatedCursor(pages, k)).next_cursor = Null
                 /\ call.op = "getBlocks" => call.value = Arr(Concat(pages))
                 /\ call.op = "getDatabase" =>
                      call.value = Arr(SortByDate(Filter(Concat(pages), call.incl)))

\* C18's case: a collection of three pages was fetched with three requests and
\* all three records are in the result.
C18_Witness ==
    /\ call.op = "getDatabase" /\ call.phase = "returned" /\ ~call.fromCache
    /\ Len(svc.collection) = 3 /\ call.requests = 3
    /\ Len(call.value.v) = 3

\* The output of groupListBlocks with every ListBlock replaced by its items.
RECURSIVE Expand(_)
Expand(out) ==
    IF out = << >> THEN << >>
    ELSE (IF IsListBlock(Head(out)) THEN Head(out).items ELSE << Head(out) >>)
         \o Expand(Tail(out))

\* C19: groupListBlocks preserves content and order: its output with every
\* ListBlock replaced by its items is the input sequence (the empty sequence
\* for a null input); an output element that is no ListBlock is a block of the
\* input that is no list item; every ListBlock has at least one item, only list
\* items, and the id of its first item.
C19_PreservesContentAndOrder ==
    glPc = "done" =>
        /\ Expand(glOut) = (IF glIn = Null THEN << >> ELSE glIn.v)
        /\ \A k \in 1..Len(glOut) :
             IF IsListBlock(glOut[k])
             THEN /\ glOut[k].items # << >>
                  /\ glOut[k].id = glOut[k].items[1].id
                  /\ \A j \in 1..Len(glOut[k].items) : IsListItem(glOut[k].items[j])
             ELSE ~IsListItem(glOut[k]) /\ glOut[k] \in Range(glIn.v)

\* C19's case: an input of four blocks with a paragraph between list items and
\* a run of two list items at its end.
C19_Witness ==
    /\ glPc = "done" /\ glIn # Null /\ Len(glIn.v) = 4
    /\ Len(glOut) = 3
    /\ IsListBlock(glOut[1]) /\ ~IsListBlock(glOut[2])
    /\ IsListBlock(glOut[3]) /\ Len(glOut[3].items) = 2

\* C20: at most 5 backoff waits are made; the k-th is at least the base delay
\* 1000 * 2^(k-1) ms, exceeds it by less than 30% of it, and is at most 30000 ms;
\* and the base delay has doubled after each wait.
C20_BackoffDelays ==
    /\ Len(rtSleeps) <= 5
    /\ \A k \in 1..Len(rtSleeps) :
         LET base == 1000 * 2 ^ (k - 1)
             d == rtSleeps[k]
         IN  /\ base <= d
             /\ 10 * (d - base) < 3 * base
             /\ d <= 30000
    /\ rtDelay = 1000 * 2 ^ Len(rtSleeps)

\* C20's case: five waits were made, the first without jitter and the last with.
C20_Witness ==
    /\ Len(rtSleeps) = 5
    /\ rtSleeps[1] = 1000 /\ rtSleeps[2] > 2000 /\ rtSleeps[5] > 16000

\* What C21 says of one step.  From its first request on, a query writes to the
\* cache only in the step in which it returns: a further page coming in, time
\* passing and the query's failure leave the whole cache as it is.  After the
\* failure the cache stays as it is until the next query, and a next query with
\* the same key does not answer from the cache: it issues its first request,
\* without cursor and with nothing accumulated.
FailureStoresNothing ==
    /\ (call.phase = "fetching" /\ call'.phase # "returned") => cache' = cache
    /\ (call.phase = "thrown" /\ callsMade' = callsMade) => cache' = cache
    /\ (call.phase = "thrown" /\ callsMade' = callsMade + 1 /\ call'.key = call.key) =>
         /\ ~call'.fromCache /\ call'.phase = "fetching"
         /\ call'.requests = 1 /\ call'.cursor = Undefined /\ call'.results = << >>
         /\ call'.read = Null

\* C21: a failed query stores nothing: getDatabase, getBlocks, getPage and
\* getPostBySlug write their cache entry only when the whole query has
\* succeeded, a failure on any page stores no partial result, and a later call
\* with the same key fetches again from the first page.
C21_FailureStoresNothing == [][FailureStoresNothing]_vars

\* C21's case: in development mode a paginated query failed on its second page,
\* with the first page's records accumulated, and its key has no entry.
C21_Witness ==
    /\ isDev /\ call.phase = "thrown" /\ call.op \in {"getDatabase", "getBlocks"}
    /\ call.requests = 2 /\ call.results # << >>
    /\ call.key \notin DOMAIN cache

====
